---- MODULE Spec2Model ----
(***************************************************************************)
(* Model of the sonnenbatterie-exporter collector (src/main.go).           *)
(*                                                                         *)
(* The Prometheus registry calls Describe once at registration and Collect *)
(* once per scrape, possibly for overlapping scrapes.  Every Collect call  *)
(* is handed its own metric channel.  A Collect call blocks in the three   *)
(* device fetches (GetStatus, GetPowerMeter, GetLatestData); other calls   *)
(* and the wall clock advance while it is blocked.                         *)
(*                                                                         *)
(* float64 values are modelled exactly as whole + frac / 2^22, which is    *)
(* the float64 grid for magnitudes in [2^30, 2^31) (the range of Unix      *)
(* timestamps in seconds between 2004 and 2038).                           *)
(***************************************************************************)
EXTENDS Integers, Sequences, FiniteSets, TLC

VARIABLES
    hasToken,   \* api.HasToken(): fixed when the client is constructed
    now,        \* wall clock: [sec, nsec], as time.Now()
    ticks,      \* number of clock advances so far
    pc,         \* pc[i]: where Collect call i is
    ch,         \* ch[c]: the metrics sent on channel c, in order
    by,         \* by[c]: for each metric of ch[c], the step that sent it
    got,        \* got[i]: what each fetch of call i returned, and the clock it read
    calls,      \* calls[i]: the call/return events of call i's fetches
    descCh,     \* the descriptors Describe sent, in order
    described   \* whether the collector has been registered (Describe ran)

vars == <<hasToken, now, ticks, pc, ch, by, got, calls, descCh, described>>

-----------------------------------------------------------------------------
(* Bounds *)

NumCalls == 2        \* overlapping Collect invocations
MaxTicks == 2        \* clock advances

Calls == 1..NumCalls

-----------------------------------------------------------------------------
(* float64 *)

NanosPerSec == 1000000000
Ulp64 == 2^8          \* float64 spacing of integers in [2^60, 2^61)
FracUnits == 2^22     \* float64 values in [2^30, 2^31) are multiples of 2^-22
Pow5_9 == 5^9         \* NanosPerSec = 2^9 * 5^9
Pow2_13 == 2^13       \* FracUnits / NanosPerSec = 2^13 / 5^9

\* float64(n) for an integer n with |n| < 2^31: exact.
Float64(n) == [whole |-> n, frac |-> 0]

\* time.Now().UnixNano() is t.sec * 10^9 + t.nsec, an int64 in [2^60, 2^61).
\* float64() of it rounds to the nearest multiple of 2^8, ties to even.  As
\* 2^8 divides 10^9, only nsec is rounded; the result is sec * 10^9 + nsec'.
Float64OfUnixNano(t) ==
    LET lo == t.nsec % Ulp64
        dn == t.nsec - lo
        up == IF lo * 2 > Ulp64 THEN TRUE
              ELSE IF lo * 2 < Ulp64 THEN FALSE
              ELSE ((dn \div Ulp64) % 2) = 1
    IN  [sec |-> t.sec, nsec |-> IF up THEN dn + Ulp64 ELSE dn]

\* <<x * 2^k \div m, x * 2^k % m>> computed by doubling, without overflow.
RECURSIVE MulPow2Div(_, _, _)
MulPow2Div(x, k, m) ==
    IF k = 0 THEN <<x \div m, x % m>>
    ELSE LET h == MulPow2Div(x, k - 1, m)
         IN  IF 2 * h[2] >= m THEN <<2 * h[1] + 1, 2 * h[2] - m>>
             ELSE <<2 * h[1], 2 * h[2]>>

\* f / 1e9 for the float64 f = sec * 10^9 + nsec: the quotient sec + nsec/10^9
\* rounded to the nearest multiple of 2^-22 (a tie cannot happen: 5^9 is odd).
Float64DivNanos(f) ==
    LET qr == MulPow2Div(f.nsec, 13, Pow5_9)
        q  == IF 2 * qr[2] > Pow5_9 THEN qr[1] + 1 ELSE qr[1]
    IN  IF q >= FracUnits THEN [whole |-> f.sec + 1, frac |-> q - FracUnits]
        ELSE [whole |-> f.sec, frac |-> q]

\* a - b for float64 a in [2^30, 2^31) and an integer b with 0 <= b <= a: exact.
Float64Sub(a, b) == [whole |-> a.whole - b.whole, frac |-> a.frac]

-----------------------------------------------------------------------------
(* The descriptor set *)

Phase == <<"phase">>
NoLabels == <<>>

\* Variant: the grid-frequency descriptor declares a phase label.
newCollector_gridFrequencyLabelled ==
    [gridVoltage            |-> [fqName |-> "solar_battery_grid_voltage", variableLabels |-> Phase],
     gridFrequency          |-> [fqName |-> "solar_battery_grid_frequency", variableLabels |-> Phase],
     chargePercent          |-> [fqName |-> "solar_battery_charge_percent", variableLabels |-> NoLabels],
     usableChargePercent    |-> [fqName |-> "solar_battery_usable_charge_percent", variableLabels |-> NoLabels],
     consumptionPower       |-> [fqName |-> "solar_battery_consumption_power", variableLabels |-> Phase],
     consumptionEnergy      |-> [fqName |-> "solar_battery_consumption_energy_total", variableLabels |-> NoLabels],
     productionPower        |-> [fqName |-> "solar_battery_production_power", variableLabels |-> Phase],
     productionEnergy       |-> [fqName |-> "solar_battery_production_energy_total", variableLabels |-> NoLabels],
     lastFullyCharged       |-> [fqName |-> "solar_battery_last_fully_charged_unix_timestamp", variableLabels |-> NoLabels],
     fullChargeCapacity     |-> [fqName |-> "solar_battery_full_charge_capacity", variableLabels |-> NoLabels],
     remaningChargeCapacity |-> [fqName |-> "solar_battery_remaining_charge_capacity", variableLabels |-> NoLabels]]

newCollector ==
    [gridVoltage            |-> [fqName |-> "solar_battery_grid_voltage", variableLabels |-> Phase],
     gridFrequency          |-> [fqName |-> "solar_battery_grid_frequency", variableLabels |-> NoLabels],
     chargePercent          |-> [fqName |-> "solar_battery_charge_percent", variableLabels |-> NoLabels],
     usableChargePercent    |-> [fqName |-> "solar_battery_usable_charge_percent", variableLabels |-> NoLabels],
     consumptionPower       |-> [fqName |-> "solar_battery_consumption_power", variableLabels |-> Phase],
     consumptionEnergy      |-> [fqName |-> "solar_battery_consumption_energy_total", variableLabels |-> NoLabels],
     productionPower        |-> [fqName |-> "solar_battery_production_power", variableLabels |-> Phase],
     productionEnergy       |-> [fqName |-> "solar_battery_production_energy_total", variableLabels |-> NoLabels],
     lastFullyCharged       |-> [fqName |-> "solar_battery_last_fully_charged_unix_timestamp", variableLabels |-> NoLabels],
     fullChargeCapacity     |-> [fqName |-> "solar_battery_full_charge_capacity", variableLabels |-> NoLabels],
     remaningChargeCapacity |-> [fqName |-> "solar_battery_remaining_charge_capacity", variableLabels |-> NoLabels]]

DescNames == DOMAIN newCollector

\* prometheus.MustNewConstMetric: panics unless the label values match the
\* descriptor's label names in number.
MustNewConstMetric(desc, valueType, value, labelValues) ==
    [desc        |-> desc,
     valueType   |-> valueType,
     value       |-> value,
     labelValues |-> labelValues,
     panic       |-> Len(labelValues) # Len(newCollector[desc].variableLabels)]

-----------------------------------------------------------------------------
(* The device's canned payloads: the fetches of Collect call k are answered *)
(* with payload k, so that overlapping calls are handed distinct payloads. *)

StatusPayload(k) ==
    [Uac |-> 230 + k, Fac |-> 50, Rsoc |-> 80 + k, Usoc |-> 75 + k,
     ConsumptionW |-> 500 + k, ProductionW |-> 1200 + k,
     RemainingCapacityWh |-> 4000 + k]

PhaseMeter(k, base) ==
    [VL1N |-> base + 231 + k, VL2N |-> base + 232 + k, VL3N |-> base + 233 + k,
     VL1L2 |-> base + 401 + k, VL2L3 |-> base + 402 + k, VL3L1 |-> base + 403 + k,
     WL1 |-> base + 11 + k, WL2 |-> base + 12 + k, WL3 |-> base + 13 + k,
     KwhImported |-> base + 7000 + k]

PowerMeterPayload(k) ==
    [production |-> PhaseMeter(k, 1000), consumption |-> PhaseMeter(k, 0)]

SecondsSinceFullChargeValues == {0, 3600}

LatestDataPayload(k, s) ==
    [IcStatus |-> [SecondsSinceFullCharge |-> s], FullChargeCapacity |-> 5000 + k]

-----------------------------------------------------------------------------
(* The three fetch-and-map steps: the metrics each sends on success *)

\* Variant: the status step labels its aggregate readings as phase L1.
StatusMetrics_L1(status) ==
    <<MustNewConstMetric("gridVoltage", "gauge", Float64(status.Uac), <<"L1">>),
      MustNewConstMetric("gridFrequency", "gauge", Float64(status.Fac), <<>>),
      MustNewConstMetric("chargePercent", "gauge", Float64(status.Rsoc), <<>>),
      MustNewConstMetric("usableChargePercent", "gauge", Float64(status.Usoc), <<>>),
      MustNewConstMetric("consumptionPower", "gauge", Float64(status.ConsumptionW), <<"L1">>),
      MustNewConstMetric("productionPower", "gauge", Float64(status.ProductionW), <<"L1">>),
      MustNewConstMetric("remaningChargeCapacity", "gauge", Float64(status.RemainingCapacityWh), <<>>)>>

\* collectStatus, after a successful GetStatus
StatusMetrics(status) ==
    <<MustNewConstMetric("gridVoltage", "gauge", Float64(status.Uac), <<"">>),
      MustNewConstMetric("gridFrequency", "gauge", Float64(status.Fac), <<>>),
      MustNewConstMetric("chargePercent", "gauge", Float64(status.Rsoc), <<>>),
      MustNewConstMetric("usableChargePercent", "gauge", Float64(status.Usoc), <<>>),
      MustNewConstMetric("consumptionPower", "gauge", Float64(status.ConsumptionW), <<"">>),
      MustNewConstMetric("productionPower", "gauge", Float64(status.ProductionW), <<"">>),
      MustNewConstMetric("remaningChargeCapacity", "gauge", Float64(status.RemainingCapacityWh), <<>>)>>

\* Variant: the power-meter step does not send the production energy.
PowerMeterMetrics_NoProductionEnergy(production, consumption) ==
    <<MustNewConstMetric("gridVoltage", "gauge", Float64(consumption.VL1N), <<"L1">>),
      MustNewConstMetric("gridVoltage", "gauge", Float64(consumption.VL2N), <<"L2">>),
      MustNewConstMetric("gridVoltage", "gauge", Float64(consumption.VL3N), <<"L3">>),
      MustNewConstMetric("gridVoltage", "gauge", Float64(consumption.VL1L2), <<"L1-L2">>),
      MustNewConstMetric("gridVoltage", "gauge", Float64(consumption.VL2L3), <<"L2-L3">>),
      MustNewConstMetric("gridVoltage", "gauge", Float64(consumption.VL3L1), <<"L3-L1">>),
      MustNewConstMetric("consumptionPower", "gauge", Float64(consumption.WL1), <<"L1">>),
      MustNewConstMetric("consumptionPower", "gauge", Float64(consumption.WL2), <<"L2">>),
      MustNewConstMetric("consumptionPower", "gauge", Float64(consumption.WL3), <<"L3">>),
      MustNewConstMetric("consumptionEnergy", "counter", Float64(consumption.KwhImported), <<>>),
      MustNewConstMetric("productionPower", "gauge", Float64(production.WL1), <<"L1">>),
      MustNewConstMetric("productionPower", "gauge", Float64(production.WL2), <<"L2">>),
      MustNewConstMetric("productionPower", "gauge", Float64(production.WL3), <<"L3">>)>>

\* Variant: the power-meter step labels the second phase voltage L1 again.
PowerMeterMetrics_L1Twice(production, consumption) ==
    <<MustNewConstMetric("gridVoltage", "gauge", Float64(consumption.VL1N), <<"L1">>),
      MustNewConstMetric("gridVoltage", "gauge", Float64(consumption.VL2N), <<"L1">>),
      MustNewConstMetric("gridVoltage", "gauge", Float64(consumption.VL3N), <<"L3">>),
      MustNewConstMetric("gridVoltage", "gauge", Float64(consumption.VL1L2), <<"L1-L2">>),
      MustNewConstMetric("gridVoltage", "gauge", Float64(consumption.VL2L3), <<"L2-L3">>),
      MustNewConstMetric("gridVoltage", "gauge", Float64(consumption.VL3L1), <<"L3-L1">>),
      MustNewConstMetric("consumptionPower", "gauge", Float64(consumption.WL1), <<"L1">>),
      MustNewConstMetric("consumptionPower", "gauge", Float64(consumption.WL2), <<"L2">>),
      MustNewConstMetric("consumptionPower", "gauge", Float64(consumption.WL3), <<"L3">>),
      MustNewConstMetric("consumptionEnergy", "counter", Float64(consumption.KwhImported), <<>>),
      MustNewConstMetric("productionPower", "gauge", Float64(production.WL1), <<"L1">>),
      MustNewConstMetric("productionPower", "gauge", Float64(production.WL2), <<"L2">>),
      MustNewConstMetric("productionPower", "gauge", Float64(production.WL3), <<"L3">>),
      MustNewConstMetric("productionEnergy", "counter", Float64(production.KwhImported), <<>>)>>

\* collectPowerMeter, after a successful GetPowerMeter
PowerMeterMetrics(production, consumption) ==
    <<MustNewConstMetric("gridVoltage", "gauge", Float64(consumption.VL1N), <<"L1">>),
      MustNewConstMetric("gridVoltage", "gauge", Float64(consumption.VL2N), <<"L2">>),
      MustNewConstMetric("gridVoltage", "gauge", Float64(consumption.VL3N), <<"L3">>),
      MustNewConstMetric("gridVoltage", "gauge", Float64(consumption.VL1L2), <<"L1-L2">>),
      MustNewConstMetric("gridVoltage", "gauge", Float64(consumption.VL2L3), <<"L2-L3">>),
      MustNewConstMetric("gridVoltage", "gauge", Float64(consumption.VL3L1), <<"L3-L1">>),
      MustNewConstMetric("consumptionPower", "gauge", Float64(consumption.WL1), <<"L1">>),
      MustNewConstMetric("consumptionPower", "gauge", Float64(consumption.WL2), <<"L2">>),
      MustNewConstMetric("consumptionPower", "gauge", Float64(consumption.WL3), <<"L3">>),
      MustNewConstMetric("consumptionEnergy", "counter", Float64(consumption.KwhImported), <<>>),
      MustNewConstMetric("productionPower", "gauge", Float64(production.WL1), <<"L1">>),
      MustNewConstMetric("productionPower", "gauge", Float64(production.WL2), <<"L2">>),
      MustNewConstMetric("productionPower", "gauge", Float64(production.WL3), <<"L3">>),
      MustNewConstMetric("productionEnergy", "counter", Float64(production.KwhImported), <<>>)>>

\* Variant: the seconds since full charge are added to the clock.
LatestDataMetrics_Add(latestData, t) ==
    <<MustNewConstMetric("lastFullyCharged", "gauge",
          [whole |-> Float64DivNanos(Float64OfUnixNano(t)).whole
                        + latestData.IcStatus.SecondsSinceFullCharge,
           frac  |-> Float64DivNanos(Float64OfUnixNano(t)).frac],
          <<>>),
      MustNewConstMetric("fullChargeCapacity", "gauge", Float64(latestData.FullChargeCapacity), <<>>)>>

\* collectLatestData, after a successful GetLatestData; t is time.Now()
LatestDataMetrics(latestData, t) ==
    <<MustNewConstMetric("lastFullyCharged", "gauge",
          Float64Sub(Float64DivNanos(Float64OfUnixNano(t)),
                     Float64(latestData.IcStatus.SecondsSinceFullCharge)),
          <<>>),
      MustNewConstMetric("fullChargeCapacity", "gauge", Float64(latestData.FullChargeCapacity), <<>>)>>

\* A step's sends stop at the first MustNewConstMetric that panics.
Panics(ms) == \E j \in 1..Len(ms) : ms[j].panic

Sent(ms) ==
    IF Panics(ms)
    THEN SubSeq(ms, 1, (CHOOSE j \in 1..Len(ms) :
                            ms[j].panic /\ \A h \in 1..(j - 1) : ~ms[h].panic) - 1)
    ELSE ms

-----------------------------------------------------------------------------
(* State *)

StepNames == {"GetStatus", "GetPowerMeter", "GetLatestData"}

NotFetched == [outcome |-> "none", data |-> <<>>, clock |-> <<>>]
Failed == [outcome |-> "err", data |-> <<>>, clock |-> <<>>]
Fetched(payload) == [outcome |-> "ok", data |-> <<payload>>, clock |-> <<>>]
FetchedAt(payload, t) == [outcome |-> "ok", data |-> <<payload>>, clock |-> <<t>>]

ClockStart == [sec |-> 1700000000, nsec |-> 0]
\* The nanoseconds by which successive clock advances move the clock: to a
\* reading just after the whole second, to the last nanosecond of that
\* second, and on to the next whole second.
TickNanos == <<1, 999999998, 1>>

Init ==
    /\ hasToken \in BOOLEAN
    /\ now = ClockStart
    /\ ticks = 0
    /\ pc = [i \in Calls |-> "idle"]
    /\ ch = [c \in Calls |-> <<>>]
    /\ by = [c \in Calls |-> <<>>]
    /\ got = [i \in Calls |-> [s \in StepNames |-> NotFetched]]
    /\ calls = [i \in Calls |-> <<>>]
    /\ descCh = <<>>
    /\ described = FALSE

-----------------------------------------------------------------------------
(* Operations *)

\* Variant: the token-gated steps always run.
HasToken_Always == TRUE

\* c.api.HasToken()
HasToken == hasToken

\* Variant: every call sends on one shared channel.
ChanOf_Shared(i) == 1

\* The channel Collect call i was handed: the registry makes one per scrape.
ChanOf(i) == i

\* The wall clock moves on, whatever the collector does.
Tick ==
    /\ ticks < MaxTicks
    /\ LET d == TickNanos[(ticks % Len(TickNanos)) + 1]
       IN  now' = [sec  |-> now.sec + ((now.nsec + d) \div NanosPerSec),
                   nsec |-> (now.nsec + d) % NanosPerSec]
    /\ ticks' = ticks + 1
    /\ UNCHANGED <<hasToken, pc, ch, by, got, calls, descCh, described>>

\* Describe implements Collector; the registry calls it when run() registers
\* the collector, before any scrape is served.
Describe ==
    /\ ~described
    /\ descCh' = <<"gridVoltage", "gridFrequency", "chargePercent",
                   "usableChargePercent", "consumptionPower", "consumptionEnergy",
                   "productionPower", "productionEnergy">>
    /\ described' = TRUE
    /\ UNCHANGED <<hasToken, now, ticks, pc, ch, by, got, calls>>

\* What a step does once its fetch has returned: record the result, send the
\* metrics ms, then go on to the next fetch of Collect, or return from it.
Finish(i, step, result, ms, next) ==
    /\ got' = [got EXCEPT ![i][step] = result]
    /\ ch' = [ch EXCEPT ![ChanOf(i)] = @ \o Sent(ms)]
    /\ by' = [by EXCEPT ![ChanOf(i)] = @ \o [j \in 1..Len(Sent(ms)) |-> step]]
    /\ IF Panics(ms)
       THEN /\ pc' = [pc EXCEPT ![i] = "panicked"]
            /\ calls' = [calls EXCEPT ![i] = Append(@, <<"panic", step>>)]
       ELSE IF next = "return"
       THEN /\ pc' = [pc EXCEPT ![i] = "done"]
            /\ calls' = [calls EXCEPT ![i] = Append(@, <<"return", step>>)]
       ELSE /\ pc' = [pc EXCEPT ![i] = next]
            /\ calls' = [calls EXCEPT ![i] = @ \o << <<"return", step>>, <<"call", next>> >>]
    /\ UNCHANGED <<hasToken, now, ticks, descCh, described>>

\* Collect is entered and collectStatus calls GetStatus.
Collect(i) ==
    /\ described
    /\ pc[i] = "idle"
    /\ pc' = [pc EXCEPT ![i] = "GetStatus"]
    /\ calls' = [calls EXCEPT ![i] = Append(@, <<"call", "GetStatus">>)]
    /\ UNCHANGED <<hasToken, now, ticks, ch, by, got, descCh, described>>

\* After collectStatus, Collect asks HasToken.
AfterStatus == IF HasToken THEN "GetPowerMeter" ELSE "return"

GetStatusOk(i) ==
    /\ pc[i] = "GetStatus"
    /\ LET status == StatusPayload(i)
       IN  Finish(i, "GetStatus", Fetched(status), StatusMetrics(status), AfterStatus)

\* Variant: a failed GetStatus is propagated out of Collect as a panic.
GetStatusErr_Propagate(i) ==
    /\ pc[i] = "GetStatus"
    /\ got' = [got EXCEPT ![i]["GetStatus"] = Failed]
    /\ pc' = [pc EXCEPT ![i] = "panicked"]
    /\ calls' = [calls EXCEPT ![i] = Append(@, <<"panic", "GetStatus">>)]
    /\ UNCHANGED <<hasToken, now, ticks, ch, by, descCh, described>>

\* Variant: a failed GetStatus is retried once.
GetStatusErr_Retry(i) ==
    /\ pc[i] = "GetStatus"
    /\ IF Len(calls[i]) < 2
       THEN /\ calls' = [calls EXCEPT ![i] = @ \o << <<"return", "GetStatus">>, <<"call", "GetStatus">> >>]
            /\ UNCHANGED <<hasToken, now, ticks, pc, ch, by, got, descCh, described>>
       ELSE Finish(i, "GetStatus", Failed, <<>>, AfterStatus)

\* GetStatus fails (an error, or the 15 s deadline): logged, nothing sent.
GetStatusErr(i) ==
    /\ pc[i] = "GetStatus"
    /\ Finish(i, "GetStatus", Failed, <<>>, AfterStatus)

GetPowerMeterOk(i) ==
    /\ pc[i] = "GetPowerMeter"
    /\ LET pm == PowerMeterPayload(i)
       IN  Finish(i, "GetPowerMeter", Fetched(pm),
                  PowerMeterMetrics(pm.production, pm.consumption), "GetLatestData")

GetPowerMeterErr(i) ==
    /\ pc[i] = "GetPowerMeter"
    /\ Finish(i, "GetPowerMeter", Failed, <<>>, "GetLatestData")

GetLatestDataOk(i) ==
    /\ pc[i] = "GetLatestData"
    /\ \E s \in SecondsSinceFullChargeValues :
         LET latestData == LatestDataPayload(i, s)
         IN  Finish(i, "GetLatestData", FetchedAt(latestData, now),
                    LatestDataMetrics(latestData, now), "return")

GetLatestDataErr(i) ==
    /\ pc[i] = "GetLatestData"
    /\ Finish(i, "GetLatestData", Failed, <<>>, "return")

Next ==
    \/ Tick
    \/ Describe
    \/ \E i \in Calls : Collect(i)
    \/ \E i \in Calls : GetStatusOk(i)
    \/ \E i \in Calls : GetStatusErr(i)
    \/ \E i \in Calls : GetPowerMeterOk(i)
    \/ \E i \in Calls : GetPowerMeterErr(i)
    \/ \E i \in Calls : GetLatestDataOk(i)
    \/ \E i \in Calls : GetLatestDataErr(i)

Spec == Init /\ [][Next]_vars

-----------------------------------------------------------------------------
(* Vocabulary of the properties *)

Labelled == {"gridVoltage", "consumptionPower", "productionPower"}

\* The metrics on channel c that step sent, in order.
PartOf(c, step) ==
    LET F[n \in 0..Len(ch[c])] ==
            IF n = 0 THEN <<>>
            ELSE IF by[c][n] = step THEN Append(F[n - 1], ch[c][n]) ELSE F[n - 1]
    IN  F[Len(ch[c])]

\* What a step of call i sends when run on its own with the result call i got.
Expected(i, step) ==
    LET r == got[i][step]
    IN  IF r.outcome # "ok" THEN <<>>
        ELSE IF step = "GetStatus" THEN StatusMetrics(r.data[1])
        ELSE IF step = "GetPowerMeter"
        THEN PowerMeterMetrics(r.data[1].production, r.data[1].consumption)
        ELSE LatestDataMetrics(r.data[1], r.clock[1])

Alone(i) ==
    Expected(i, "GetStatus") \o Expected(i, "GetPowerMeter") \o Expected(i, "GetLatestData")

Ok(i, step) == got[i][step].outcome = "ok"
Err(i, step) == got[i][step].outcome = "err"

Count(c, step, desc) ==
    Cardinality({j \in 1..Len(ch[c]) : by[c][j] = step /\ ch[c][j].desc = desc})

Called(i, step) == \E j \in 1..Len(calls[i]) : calls[i][j] = <<"call", step>>

FullTrace ==
    << <<"call", "GetStatus">>, <<"return", "GetStatus">>,
       <<"call", "GetPowerMeter">>, <<"return", "GetPowerMeter">>,
       <<"call", "GetLatestData">>, <<"return", "GetLatestData">> >>

IsPrefix(a, b) == Len(a) <= Len(b) /\ a = SubSeq(b, 1, Len(a))

-----------------------------------------------------------------------------
(* Properties *)

\* C1: partial-failure isolation.  Whatever the three fetches of a Collect
\* call return, the call never panics, all three fetches are made when the
\* client has a token, and when the call has returned its channel holds, for
\* each step, exactly that step's metrics if its fetch succeeded and nothing
\* if it failed.
PartialFailureIsolation ==
    \A i \in Calls :
        /\ pc[i] # "panicked"
        /\ pc[i] = "done" =>
              /\ \A step \in StepNames : PartOf(i, step) = Expected(i, step)
              /\ hasToken => \A step \in StepNames : got[i][step].outcome # "none"

\* A call returned after GetStatus and GetLatestData failed and GetPowerMeter
\* succeeded: the 14 power-meter metrics are on its channel.
PartialFailureWitness ==
    \E i \in Calls :
        /\ pc[i] = "done"
        /\ Err(i, "GetStatus") /\ Ok(i, "GetPowerMeter") /\ Err(i, "GetLatestData")
        /\ Len(ch[i]) = 14

\* C2: without a token, Collect never calls GetPowerMeter or GetLatestData and
\* sends exactly the 7 status metrics if GetStatus succeeded, none if it failed.
NoTokenOnlyStatus ==
    ~hasToken =>
        \A i \in Calls :
            /\ ~Called(i, "GetPowerMeter")
            /\ ~Called(i, "GetLatestData")
            /\ pc[i] = "done" =>
                  IF Ok(i, "GetStatus")
                  THEN Len(ch[i]) = 7 /\ ch[i] = StatusMetrics(got[i]["GetStatus"].data[1])
                  ELSE Len(ch[i]) = 0

\* Without a token one call returned 7 metrics and another, whose GetStatus
\* failed, returned none.
NoTokenWitness ==
    /\ ~hasToken
    /\ \E i, j \in Calls :
          /\ pc[i] = "done" /\ Ok(i, "GetStatus") /\ Len(ch[i]) = 7
          /\ pc[j] = "done" /\ Err(j, "GetStatus") /\ Len(ch[j]) = 0

\* C3: with a token and three successful fetches a Collect call sends exactly
\* 23 metrics: 7 by the status step, 14 by the power-meter step (6 voltage,
\* 3 consumption power, 1 consumption energy, 3 production power, 1 production
\* energy) and 2 by the latest-data step.
AllSucceedSends23 ==
    \A i \in Calls :
        (hasToken /\ pc[i] = "done" /\ \A step \in StepNames : Ok(i, step)) =>
            /\ Len(ch[i]) = 23
            /\ Len(PartOf(i, "GetStatus")) = 7
            /\ Len(PartOf(i, "GetPowerMeter")) = 14
            /\ Len(PartOf(i, "GetLatestData")) = 2
            /\ Count(i, "GetPowerMeter", "gridVoltage") = 6
            /\ Count(i, "GetPowerMeter", "consumptionPower") = 3
            /\ Count(i, "GetPowerMeter", "consumptionEnergy") = 1
            /\ Count(i, "GetPowerMeter", "productionPower") = 3
            /\ Count(i, "GetPowerMeter", "productionEnergy") = 1

AllSucceedWitness ==
    \E i \in Calls :
        hasToken /\ pc[i] = "done" /\ \A step \in StepNames : Ok(i, step)

\* The descriptors the status step sends metrics of.
StatusDescs ==
    {StatusMetrics(StatusPayload(1))[j].desc : j \in 1..Len(StatusMetrics(StatusPayload(1)))}

\* C4: Describe sends exactly the descriptors of the status step's metrics,
\* and none that only the power-meter or latest-data step uses.
DescribeSendsStatusDescs ==
    described => {descCh[j] : j \in 1..Len(descCh)} = StatusDescs

\* C5: overlapping Collect calls are isolated.  At every moment the channel
\* of a call holds exactly what the call would have sent so far on its own,
\* from its own fetch results; a step of the system that does not move call
\* i leaves call i's channel and results alone; and the state the calls share
\* (the client's token flag, the descriptors sent at registration) is never
\* changed by a Collect step.
ConcurrentCollectsIsolated ==
    /\ [](\A i \in Calls : ch[i] = Alone(i))
    /\ [][/\ hasToken' = hasToken
          /\ described => descCh' = descCh
          /\ \A i \in Calls :
                pc'[i] = pc[i] => (ch'[i] = ch[i] /\ by'[i] = by[i] /\ got'[i] = got[i])]_vars

\* Two calls are blocked in a fetch at the same time and both have already
\* sent metrics, built from different payloads.
ConcurrentWitness ==
    \E i, j \in Calls :
        /\ i # j
        /\ pc[i] = "GetPowerMeter" /\ pc[j] = "GetLatestData"
        /\ Len(ch[i]) = 7 /\ Len(ch[j]) = 21
        /\ ch[i] # SubSeq(ch[j], 1, 7)

\* C6: every grid-voltage, consumption-power and production-power metric the
\* status step sends has the phase label "", and every one the power-meter
\* step sends has a non-empty phase label.
StatusLabelsEmpty ==
    \A c \in Calls : \A j \in 1..Len(ch[c]) :
        ch[c][j].desc \in Labelled =>
            /\ by[c][j] = "GetStatus" => ch[c][j].labelValues = <<"">>
            /\ by[c][j] = "GetPowerMeter" =>
                  /\ Len(ch[c][j].labelValues) = 1
                  /\ ch[c][j].labelValues[1] # ""

\* A channel holds a grid-voltage metric of the status step and one of the
\* power-meter step.
StatusLabelsWitness ==
    \E c \in Calls : \E j, h \in 1..Len(ch[c]) :
        /\ ch[c][j].desc = "gridVoltage" /\ by[c][j] = "GetStatus"
        /\ ch[c][h].desc = "gridVoltage" /\ by[c][h] = "GetPowerMeter"

\* The last-fully-charged metrics on call i's channel satisfy P(value, clock
\* read, seconds since full charge), there is one when GetLatestData
\* succeeded, and the full-charge capacity is sent unchanged.
LatestDataSends(i, P(_, _, _)) ==
    Ok(i, "GetLatestData") =>
        LET r == got[i]["GetLatestData"]
            t == r.clock[1]
            s == r.data[1].IcStatus.SecondsSinceFullCharge
        IN  /\ \E j \in 1..Len(ch[i]) : ch[i][j].desc = "lastFullyCharged"
            /\ \A j \in 1..Len(ch[i]) :
                  /\ ch[i][j].desc = "lastFullyCharged" => P(ch[i][j].value, t, s)
                  /\ ch[i][j].desc = "fullChargeCapacity" =>
                        ch[i][j].value = Float64(r.data[1].FullChargeCapacity)

\* v = (t.sec + t.nsec / 10^9) - s exactly: v.frac / 2^22 = t.nsec / 10^9,
\* that is v.frac * 5^9 = t.nsec * 2^13.
ExactDifference(v, t, s) ==
    /\ v.whole = t.sec - s
    /\ t.nsec % Pow5_9 = 0
    /\ v.frac = (t.nsec \div Pow5_9) * Pow2_13

\* v is (t.sec + t.nsec / 10^9) - s up to the two float64 roundings: exact
\* when the clock reads a whole second, and otherwise less than 2^-21 s off.
RoundedDifference(v, t, s) ==
    LET d  == v.whole - (t.sec - s)
        fl == MulPow2Div(t.nsec, 13, Pow5_9)[1]
    IN  /\ d \in {0, 1}
        /\ (d * FracUnits + v.frac) - fl \in -1..2
        /\ t.nsec = 0 => v = [whole |-> t.sec - s, frac |-> 0]

\* C7 as stated: the last-fully-charged metric is exactly the clock in
\* seconds minus the seconds since full charge, for every clock reading.
LastFullyChargedExact ==
    \A i \in Calls : LatestDataSends(i, ExactDifference)

\* C7 as amended: the last-fully-charged metric is float64(UnixNano)/1e9 minus
\* the seconds since full charge: exactly the difference when the clock reads
\* a whole second (1,700,000,000 s and 3600 s give 1,699,996,400), and within
\* 2^-21 s of it otherwise; the full-charge capacity is sent unchanged.
LastFullyChargedRounded ==
    \A i \in Calls : LatestDataSends(i, RoundedDifference)

\* One call read the clock at 1,700,000,000 s with 3600 s since full charge
\* and sent 1,699,996,400; another read a clock with a sub-second part.
LastFullyChargedWitness ==
    \E i, j \in Calls :
        /\ Ok(i, "GetLatestData") /\ Ok(j, "GetLatestData")
        /\ got[i]["GetLatestData"].clock[1] = [sec |-> 1700000000, nsec |-> 0]
        /\ got[i]["GetLatestData"].data[1].IcStatus.SecondsSinceFullCharge = 3600
        /\ \E h \in 1..Len(ch[i]) :
              /\ ch[i][h].desc = "lastFullyCharged"
              /\ ch[i][h].value = [whole |-> 1699996400, frac |-> 0]
        /\ got[j]["GetLatestData"].clock[1].nsec # 0

\* C8: every metric sent has as many label values as its descriptor declares
\* label names: one for grid voltage, consumption power and production
\* power, none for the others; no MustNewConstMetric panics on a mismatch.
LabelCountsMatch ==
    /\ \A i \in Calls : pc[i] # "panicked"
    /\ \A c \in Calls : \A j \in 1..Len(ch[c]) :
          /\ Len(ch[c][j].labelValues) = Len(newCollector[ch[c][j].desc].variableLabels)
          /\ Len(ch[c][j].labelValues) = IF ch[c][j].desc \in Labelled THEN 1 ELSE 0

\* A channel holds metrics of all eleven descriptors.
LabelCountsWitness ==
    \E c \in Calls : {ch[c][j].desc : j \in 1..Len(ch[c])} = DescNames

\* C9: with a token, the fetches of one Collect call are GetStatus, then
\* GetPowerMeter, then GetLatestData, each called once and only after the
\* one before has returned, whether or not any of them fails.
FetchesInOrderOnce ==
    hasToken =>
        \A i \in Calls :
            /\ IsPrefix(calls[i], FullTrace)
            /\ pc[i] = "done" => calls[i] = FullTrace

\* A call whose three fetches all failed made exactly the three calls.
FetchesInOrderWitness ==
    \E i \in Calls :
        /\ hasToken /\ pc[i] = "done"
        /\ \A step \in StepNames : Err(i, step)
        /\ calls[i] = FullTrace

\* C10: no two metrics of one Collect call have the same descriptor and the
\* same label values.
NoDuplicateSeries ==
    \A c \in Calls : \A j \in 1..Len(ch[c]) : \A h \in 1..(j - 1) :
        ~(ch[c][j].desc = ch[c][h].desc /\ ch[c][j].labelValues = ch[c][h].labelValues)

\* A channel holds the 7 grid-voltage metrics: "" and the six phases.
NoDuplicateWitness ==
    \E c \in Calls :
        Cardinality({j \in 1..Len(ch[c]) : ch[c][j].desc = "gridVoltage"}) = 7

====
